---- MODULE Spec2Model ----
(***************************************************************************)
(* State machine of the App component (src/src/App.tsx): the todo list,    *)
(* the optimistic placeholder, the ids being deleted, the notification and  *)
(* the network calls in flight (src/unnamed/part_000: api/todos).           *)
(*                                                                          *)
(* JavaScript runs one task at a time: a user intent, the settlement of a   *)
(* network call (with its whole then/catch/finally chain, which runs as     *)
(* microtasks of the same task) and a timer callback are each one atomic    *)
(* action.                                                                  *)
(***************************************************************************)
EXTENDS Integers, Sequences, FiniteSets, TLC

VARIABLES
  todosFromServer,       \* App.tsx:21  Todo[]
  filter,                \* App.tsx:22  Filter
  errorMessage,          \* App.tsx:23  string
  isNotificationHidden,  \* App.tsx:24  boolean
  tempTodo,              \* App.tsx:25  Todo | null  (<<>> is null, <<t>> is t)
  deletingTodoIds,       \* App.tsx:26  number[]
  timers,                \* number of setTimeout callbacks not yet fired (App.tsx:34)
  getTodosCall,          \* the promise of getTodos() of the mount effect (App.tsx:153)
  addCalls,              \* the promises returned by handleAddTodo, in call order
  deleteCalls,           \* the promise chains built on deleteTodo(id), in call order
  clearCount             \* number of handleClearCompletedTodos invocations (Promise.all instances)

vars == <<todosFromServer, filter, errorMessage, isNotificationHidden, tempTodo,
          deletingTodoIds, timers, getTodosCall, addCalls, deleteCalls, clearCount>>

----------------------------------------------------------------------------
(* Bounds of the model *)

MaxTitleLen == 1       \* longest title typed into the entry field
MaxAddCalls == 2       \* handleAddTodo invocations in one behaviour
MaxDeleteCalls == 2    \* deleteTodo calls in one behaviour
MaxClears == 1         \* handleClearCompletedTodos invocations in one behaviour
NumServerTodos == 2    \* todos the service holds at startup

----------------------------------------------------------------------------
(* Data *)

USER_ID == 2159

Whitespace == {" "}
Chars == {" ", "a"}

Titles == UNION {[1..n -> Chars] : n \in 0..MaxTitleLen}

Filter == {"all", "active", "completed"}

NoTodo == <<>>

Range(s) == {s[i] : i \in 1..Len(s)}

Ids(todos) == [i \in 1..Len(todos) |-> todos[i].id]

\* String.prototype.trim: drops the leading and the trailing whitespace
RECURSIVE TrimStart(_)
TrimStart(s) ==
  IF s # <<>> /\ Head(s) \in Whitespace THEN TrimStart(Tail(s)) ELSE s

RECURSIVE TrimEnd(_)
TrimEnd(s) ==
  IF s # <<>> /\ s[Len(s)] \in Whitespace
    THEN TrimEnd(SubSeq(s, 1, Len(s) - 1))
    ELSE s

NoTrim(title) == title

Trim(title) == TrimEnd(TrimStart(title))

\* The todos the service holds at startup: ids 1..NumServerTodos, every
\* third one active, the others completed
ServerTodo(i) ==
  [id |-> i, title |-> <<"a">>, userId |-> USER_ID, completed |-> (i % 3 # 0)]

\* The answers of GET /todos: the service's todos at the time it serves the call
ListResponses == {[i \in 1..n |-> ServerTodo(i)] : n \in 0..NumServerTodos}

\* The answer of POST /todos: the posted fields with a server-assigned id
CreatedTodo(fields, n) ==
  [id |-> NumServerTodos + n, title |-> fields.title,
   userId |-> fields.userId, completed |-> fields.completed]

----------------------------------------------------------------------------
(* Derived views *)

filterTodosSwapped(todos, filterBy) ==
  CASE filterBy = "completed" -> SelectSeq(todos, LAMBDA todo : ~todo.completed)
    [] filterBy = "active" -> SelectSeq(todos, LAMBDA todo : todo.completed)
    [] OTHER -> todos

filterTodos(todos, filterBy) ==
  CASE filterBy = "completed" -> SelectSeq(todos, LAMBDA todo : todo.completed)
    [] filterBy = "active" -> SelectSeq(todos, LAMBDA todo : ~todo.completed)
    [] OTHER -> todos

visibleTodos == filterTodos(todosFromServer, filter)

completedTodosCount == Len(SelectSeq(todosFromServer, LAMBDA todo : todo.completed))

activeTodosCount == Len(SelectSeq(todosFromServer, LAMBDA todo : ~todo.completed))

allTodosCompleted == activeTodosCount = 0

hasCompletedTodos == \E i \in 1..Len(todosFromServer) : todosFromServer[i].completed

----------------------------------------------------------------------------
(* State updaters *)

PrependTodo(currentTodos, newTodo) == <<newTodo>> \o currentTodos

AppendTempTodo(currentTodos, newTodo) == currentTodos \o tempTodo

\* currentTodos => [...currentTodos, newTodo]
AppendTodo(currentTodos, newTodo) == Append(currentTodos, newTodo)

RemoveUpTo(curr, todoId) == SelectSeq(curr, LAMBDA todo : todo.id > todoId)

\* curr => curr.filter(todo => todo.id !== todoId)
RemoveTodo(curr, todoId) == SelectSeq(curr, LAMBDA todo : todo.id # todoId)

AllTodoIds(todos) == Ids(todos)

\* todosFromServer.filter(todo => todo.completed).map(todo => todo.id)
CompletedTodoIds(todos) == Ids(SelectSeq(todos, LAMBDA todo : todo.completed))

KeepTempTodo(curr) == curr

\* finally of handleAddTodo: setTempTodo(null)
FinallyTempTodo(curr) == NoTodo

KeepDeletingIds(curr) == curr

\* finally of the delete chains: setDeletingTodoIds([])
FinallyDeletingIds(curr) == <<>>

\* setDeletingTodoIds([todoId]), setDeletingTodoIds(completedTodoIds)
SetDeletingTodoIds(curr, ids) == ids

DeleteErrorAsAdd == "Unable to add a todo"

DeleteErrorText == "Unable to delete a todo"

showErrorMessage(message) ==
  /\ errorMessage' = message
  /\ isNotificationHidden' = FALSE
  /\ timers' = timers + 1

----------------------------------------------------------------------------
Init ==
  /\ todosFromServer = <<>>
  /\ filter = "all"
  /\ errorMessage = ""
  /\ isNotificationHidden = TRUE
  /\ tempTodo = NoTodo
  /\ deletingTodoIds = <<>>
  /\ timers = 0
  /\ getTodosCall = "pending"
  /\ addCalls = <<>>
  /\ deleteCalls = <<>>
  /\ clearCount = 0

----------------------------------------------------------------------------
(* Network calls *)

Settle(calls, i, outcome) == [calls EXCEPT ![i].state = outcome]

Pending(calls) == {i \in 1..Len(calls) : calls[i].state = "pending"}

\* Number of todos the service has created so far
Created == Cardinality({i \in 1..Len(addCalls) : addCalls[i].state = "ok"})

----------------------------------------------------------------------------
(* useEffect(() => getTodos().then(setTodosFromServer).catch(...), []) *)

getTodosThen(todos) ==
  /\ getTodosCall = "pending"
  /\ getTodosCall' = "ok"
  /\ todosFromServer' = todos
  /\ UNCHANGED <<filter, errorMessage, isNotificationHidden, tempTodo,
                 deletingTodoIds, timers, addCalls, deleteCalls, clearCount>>

getTodosCatchSilent ==
  /\ getTodosCall = "pending"
  /\ getTodosCall' = "failed"
  /\ UNCHANGED <<todosFromServer, filter, errorMessage, isNotificationHidden,
                 timers, tempTodo, deletingTodoIds, addCalls, deleteCalls,
                 clearCount>>

getTodosCatch ==
  /\ getTodosCall = "pending"
  /\ getTodosCall' = "failed"
  /\ showErrorMessage("Unable to load todos")
  /\ UNCHANGED <<todosFromServer, filter, tempTodo, deletingTodoIds,
                 addCalls, deleteCalls, clearCount>>

----------------------------------------------------------------------------
(* handleAddTodo *)

handleAddTodo(title) ==
  /\ Len(addCalls) < MaxAddCalls
  /\ LET trimmedTitle == Trim(title) IN
       IF Len(trimmedTitle) = 0
         THEN /\ showErrorMessage("Title should not be empty")
              /\ addCalls' = Append(addCalls,
                   [title |-> title, state |-> "rejected",
                    posted |-> <<>>, result |-> NoTodo])
              /\ UNCHANGED tempTodo
         ELSE /\ errorMessage' = ""
              /\ tempTodo' = <<[id |-> 0, title |-> trimmedTitle,
                                 userId |-> USER_ID, completed |-> FALSE]>>
              /\ addCalls' = Append(addCalls,
                   [title |-> title, state |-> "pending",
                    posted |-> <<[title |-> trimmedTitle, userId |-> USER_ID,
                                  completed |-> FALSE]>>,
                    result |-> NoTodo])
              /\ UNCHANGED <<isNotificationHidden, timers>>
  /\ UNCHANGED <<todosFromServer, filter, deletingTodoIds, getTodosCall,
                 deleteCalls, clearCount>>

\* createTodo(...) resolves: then, finally
handleAddTodoThen(i) ==
  /\ i \in Pending(addCalls)
  /\ LET newTodo == CreatedTodo(addCalls[i].posted[1], Created + 1) IN
       /\ todosFromServer' = AppendTodo(todosFromServer, newTodo)
       /\ addCalls' = [addCalls EXCEPT ![i].state = "ok",
                                       ![i].result = <<newTodo>>]
  /\ tempTodo' = FinallyTempTodo(tempTodo)
  /\ UNCHANGED <<filter, errorMessage, isNotificationHidden, deletingTodoIds,
                 timers, getTodosCall, deleteCalls, clearCount>>

\* createTodo(...) rejects: catch, finally
handleAddTodoCatch(i) ==
  /\ i \in Pending(addCalls)
  /\ showErrorMessage("Unable to add a todo")
  /\ addCalls' = Settle(addCalls, i, "failed")
  /\ tempTodo' = FinallyTempTodo(tempTodo)
  /\ UNCHANGED <<todosFromServer, filter, deletingTodoIds, getTodosCall,
                 deleteCalls, clearCount>>

----------------------------------------------------------------------------
(* handleDeleteTodo: TodoList offers it on the rows of visibleTodos *)

handleDeleteTodo(todoId) ==
  /\ Len(deleteCalls) < MaxDeleteCalls
  /\ todoId \in Range(Ids(visibleTodos))
  /\ deletingTodoIds' = SetDeletingTodoIds(deletingTodoIds, <<todoId>>)
  /\ deleteCalls' = Append(deleteCalls,
       [id |-> todoId, batch |-> 0, state |-> "pending"])
  /\ UNCHANGED <<todosFromServer, filter, errorMessage, isNotificationHidden,
                 tempTodo, timers, getTodosCall, addCalls, clearCount>>

\* deleteTodo(todoId) resolves: then, finally
handleDeleteTodoThen(i) ==
  /\ i \in Pending(deleteCalls)
  /\ deleteCalls[i].batch = 0
  /\ todosFromServer' = RemoveTodo(todosFromServer, deleteCalls[i].id)
  /\ deletingTodoIds' = FinallyDeletingIds(deletingTodoIds)
  /\ deleteCalls' = Settle(deleteCalls, i, "ok")
  /\ UNCHANGED <<filter, errorMessage, isNotificationHidden, tempTodo, timers,
                 getTodosCall, addCalls, clearCount>>

\* deleteTodo(todoId) rejects: catch, finally
handleDeleteTodoCatch(i) ==
  /\ i \in Pending(deleteCalls)
  /\ deleteCalls[i].batch = 0
  /\ showErrorMessage(DeleteErrorText)
  /\ deletingTodoIds' = FinallyDeletingIds(deletingTodoIds)
  /\ deleteCalls' = Settle(deleteCalls, i, "failed")
  /\ UNCHANGED <<todosFromServer, filter, tempTodo, getTodosCall, addCalls,
                 clearCount>>

----------------------------------------------------------------------------
(* handleClearCompletedTodos: the Footer is rendered while todosFromServer *)
(* is not empty                                                            *)

handleClearCompletedTodos ==
  LET completedTodoIds == CompletedTodoIds(todosFromServer) IN
    /\ Len(todosFromServer) > 0
    /\ clearCount < MaxClears
    /\ Len(deleteCalls) + Len(completedTodoIds) <= MaxDeleteCalls
    /\ clearCount' = clearCount + 1
    /\ deletingTodoIds' = SetDeletingTodoIds(deletingTodoIds, completedTodoIds)
    /\ deleteCalls' = deleteCalls \o
         [k \in 1..Len(completedTodoIds) |->
            [id |-> completedTodoIds[k], batch |-> clearCount + 1,
             state |-> "pending"]]
    /\ UNCHANGED <<todosFromServer, filter, errorMessage, isNotificationHidden,
                   tempTodo, timers, getTodosCall, addCalls>>

\* deleteTodo(id) of a batch resolves: then, finally
handleClearCompletedTodosThen(i) ==
  /\ i \in Pending(deleteCalls)
  /\ deleteCalls[i].batch > 0
  /\ todosFromServer' = RemoveTodo(todosFromServer, deleteCalls[i].id)
  /\ deletingTodoIds' = FinallyDeletingIds(deletingTodoIds)
  /\ deleteCalls' = Settle(deleteCalls, i, "ok")
  /\ UNCHANGED <<filter, errorMessage, isNotificationHidden, tempTodo, timers,
                 getTodosCall, addCalls, clearCount>>

\* deleteTodo(id) of a batch rejects: catch, finally
handleClearCompletedTodosCatch(i) ==
  /\ i \in Pending(deleteCalls)
  /\ deleteCalls[i].batch > 0
  /\ showErrorMessage(DeleteErrorText)
  /\ deletingTodoIds' = FinallyDeletingIds(deletingTodoIds)
  /\ deleteCalls' = Settle(deleteCalls, i, "failed")
  /\ UNCHANGED <<todosFromServer, filter, tempTodo, getTodosCall, addCalls,
                 clearCount>>

----------------------------------------------------------------------------
(* Notification timer, close button and filter links *)

\* the callback of setTimeout in showErrorMessage
timerFires ==
  /\ timers > 0
  /\ timers' = timers - 1
  /\ errorMessage' = ""
  /\ isNotificationHidden' = TRUE
  /\ UNCHANGED <<todosFromServer, filter, tempTodo, deletingTodoIds,
                 getTodosCall, addCalls, deleteCalls, clearCount>>

\* onClose={setIsNotificationHidden}
onClose ==
  /\ isNotificationHidden' = TRUE
  /\ UNCHANGED <<todosFromServer, filter, errorMessage, tempTodo,
                 deletingTodoIds, timers, getTodosCall, addCalls, deleteCalls,
                 clearCount>>

\* onFilterClick={setFilter}
setFilter(f) ==
  /\ filter' = f
  /\ UNCHANGED <<todosFromServer, errorMessage, isNotificationHidden, tempTodo,
                 deletingTodoIds, timers, getTodosCall, addCalls, deleteCalls,
                 clearCount>>

----------------------------------------------------------------------------
Next ==
  \/ \E todos \in ListResponses : getTodosThen(todos)
  \/ getTodosCatch
  \/ \E title \in Titles : handleAddTodo(title)
  \/ \E i \in 1..Len(addCalls) : handleAddTodoThen(i)
  \/ \E i \in 1..Len(addCalls) : handleAddTodoCatch(i)
  \/ \E todoId \in 1..(NumServerTodos + MaxAddCalls) : handleDeleteTodo(todoId)
  \/ \E i \in 1..Len(deleteCalls) : handleDeleteTodoThen(i)
  \/ \E i \in 1..Len(deleteCalls) : handleDeleteTodoCatch(i)
  \/ handleClearCompletedTodos
  \/ \E i \in 1..Len(deleteCalls) : handleClearCompletedTodosThen(i)
  \/ \E i \in 1..Len(deleteCalls) : handleClearCompletedTodosCatch(i)
  \/ timerFires
  \/ onClose
  \/ \E f \in Filter : setFilter(f)

Spec == Init /\ [][Next]_vars

----------------------------------------------------------------------------
(* Properties *)

IdSet(todos) == Range(Ids(todos))

DeletingIdSet == Range(deletingTodoIds)

\* The step settles the i-th add call / delete call with the given outcome
AddSettles(i, outcome) ==
  /\ i \in 1..Len(addCalls)
  /\ addCalls[i].state = "pending"
  /\ addCalls'[i].state = outcome

DeleteSettles(i, outcome) ==
  /\ i \in 1..Len(deleteCalls)
  /\ deleteCalls[i].state = "pending"
  /\ deleteCalls'[i].state = outcome

\* C1: pendingCreate (tempTodo) holds a placeholder if and only if at least
\* one create request issued by add is still outstanding.
C1_PendingCreateIffOutstanding ==
  (tempTodo # NoTodo) <=> (Pending(addCalls) # {})

\* C2: the settlement of one call of a clearCompleted batch does not remove
\* from deletingIds the ids whose calls of the same batch are still
\* outstanding.
C2_BatchSettlementKeepsSiblings ==
  [][\A i \in 1..Len(deleteCalls) :
       (deleteCalls[i].batch > 0 /\ deleteCalls[i].state = "pending"
          /\ deleteCalls'[i].state # "pending")
       => \A j \in 1..Len(deleteCalls) :
            (j # i /\ deleteCalls[j].batch = deleteCalls[i].batch
               /\ deleteCalls'[j].state = "pending"
               /\ deleteCalls[j].id \in DeletingIdSet)
            => deleteCalls[j].id \in DeletingIdSet']_vars

\* C3: delete(id) adds id to deletingIds at invocation and keeps every id
\* that was in deletingIds before.
C3_DeleteAddsId ==
  [][(Len(deleteCalls') = Len(deleteCalls) + 1
        /\ deleteCalls'[Len(deleteCalls')].batch = 0)
     => /\ deleteCalls'[Len(deleteCalls')].id \in DeletingIdSet'
        /\ DeletingIdSet \subseteq DeletingIdSet']_vars

\* C4: every id in deletingIds has a delete request that was issued for it
\* and has not settled; once the delete request for an id has settled, the
\* id is no longer in deletingIds.
C4_DeletingIdsOutstanding ==
  [][/\ \A id \in DeletingIdSet' :
          \E i \in 1..Len(deleteCalls') :
            deleteCalls'[i].id = id /\ deleteCalls'[i].state = "pending"
     /\ \A i \in 1..Len(deleteCalls) :
          (DeleteSettles(i, "ok") \/ DeleteSettles(i, "failed"))
          => deleteCalls[i].id \notin DeletingIdSet']_vars

\* a delete call has settled while the call of another id is outstanding
\* and shown as being deleted
C4_Witness ==
  \E i, j \in 1..Len(deleteCalls) :
    /\ deleteCalls[i].state \in {"ok", "failed"}
    /\ deleteCalls[j].state = "pending"
    /\ deleteCalls[j].id \in DeletingIdSet
    /\ deleteCalls[i].id \notin DeletingIdSet

\* C5: when the create request of add succeeds, todos after the settlement
\* is todos before it with exactly the server-returned Todo appended at the
\* end.
C5_CreateAppends ==
  [][\A i \in 1..Len(addCalls) :
       AddSettles(i, "ok")
       => /\ Len(todosFromServer') = Len(todosFromServer) + 1
          /\ \A k \in 1..Len(todosFromServer) :
               todosFromServer'[k] = todosFromServer[k]
          /\ addCalls'[i].result # NoTodo
          /\ todosFromServer'[Len(todosFromServer')] = addCalls'[i].result[1]
          /\ addCalls'[i].result[1].title = addCalls[i].posted[1].title]_vars

\* a create succeeded with other todos in the list and a delete in flight:
\* the created todo is the last one
C5_Witness ==
  \E i \in 1..Len(addCalls) :
    /\ addCalls[i].state = "ok"
    /\ Len(todosFromServer) >= 2
    /\ todosFromServer[Len(todosFromServer)] = addCalls[i].result[1]
    /\ Pending(deleteCalls) # {}

\* C6: when the delete request of delete(id) succeeds for an id present in
\* todos, todos after the settlement is todos before it without the item of
\* that id, the other items in the same order.
C6_DeleteRemovesOnlyId ==
  [][\A i \in 1..Len(deleteCalls) :
       (DeleteSettles(i, "ok") /\ deleteCalls[i].batch = 0
          /\ deleteCalls[i].id \in IdSet(todosFromServer))
       => \E k \in 1..Len(todosFromServer) :
            /\ todosFromServer[k].id = deleteCalls[i].id
            /\ todosFromServer' =
                 SubSeq(todosFromServer, 1, k - 1) \o
                 SubSeq(todosFromServer, k + 1, Len(todosFromServer))]_vars

\* a delete succeeded and removed its item from the middle or the end of a
\* list whose other items are still there
C6_Witness ==
  \E i \in 1..Len(deleteCalls) :
    /\ deleteCalls[i].state = "ok"
    /\ deleteCalls[i].batch = 0
    /\ deleteCalls[i].id > 1
    /\ getTodosCall = "ok"
    /\ deleteCalls[i].id \notin IdSet(todosFromServer)
    /\ 1 \in IdSet(todosFromServer)

\* C7: when the delete request of delete(id) fails, todos is unchanged by
\* the settlement, the notification shows "Unable to delete a todo" and
\* deletingIds is empty after the settlement.
C7_DeleteFailure ==
  [][\A i \in 1..Len(deleteCalls) :
       (DeleteSettles(i, "failed") /\ deleteCalls[i].batch = 0)
       => /\ todosFromServer' = todosFromServer
          /\ errorMessage' = "Unable to delete a todo"
          /\ isNotificationHidden' = FALSE
          /\ deletingTodoIds' = <<>>]_vars

\* a delete failed: its item is still listed and the notification shows
C7_Witness ==
  \E i \in 1..Len(deleteCalls) :
    /\ deleteCalls[i].state = "failed"
    /\ deleteCalls[i].batch = 0
    /\ deleteCalls[i].id \in IdSet(todosFromServer)
    /\ errorMessage = "Unable to delete a todo"
    /\ ~isNotificationHidden
    /\ deletingTodoIds = <<>>

\* the title consists of whitespace only
Blank(title) == \A k \in 1..Len(title) : title[k] \in Whitespace

\* C8: for a title whose trimmed form is empty, add issues no create
\* request, leaves todos unchanged, does not set pendingCreate and raises
\* the notification "Title should not be empty".
C8_EmptyTitleRejected ==
  [][(Len(addCalls') = Len(addCalls) + 1
        /\ Blank(addCalls'[Len(addCalls')].title))
     => /\ addCalls'[Len(addCalls')].state = "rejected"
        /\ addCalls'[Len(addCalls')].posted = <<>>
        /\ Pending(addCalls') = Pending(addCalls)
        /\ todosFromServer' = todosFromServer
        /\ tempTodo' = tempTodo
        /\ errorMessage' = "Title should not be empty"
        /\ isNotificationHidden' = FALSE]_vars

\* a title of one blank was rejected while the list was loaded
C8_Witness ==
  \E i \in 1..Len(addCalls) :
    /\ addCalls[i].title = <<" ">>
    /\ addCalls[i].state = "rejected"
    /\ errorMessage = "Title should not be empty"
    /\ Len(todosFromServer) > 0

\* C9: when the create request of add fails, the notification shows
\* "Unable to add a todo", todos is unchanged by the settlement and the
\* placeholder is discarded without entering todos.
C9_CreateFailure ==
  [][\A i \in 1..Len(addCalls) :
       AddSettles(i, "failed")
       => /\ errorMessage' = "Unable to add a todo"
          /\ isNotificationHidden' = FALSE
          /\ todosFromServer' = todosFromServer
          /\ tempTodo' = NoTodo
          /\ 0 \notin IdSet(todosFromServer')]_vars

\* a create failed: the notification shows and no placeholder is left
C9_Witness ==
  \E i \in 1..Len(addCalls) :
    /\ addCalls[i].state = "failed"
    /\ errorMessage = "Unable to add a todo"
    /\ ~isNotificationHidden
    /\ tempTodo = NoTodo
    /\ Len(todosFromServer) > 0

\* the delete calls of batch b, in the order they were issued
BatchIds(calls, b) ==
  Ids(SelectSeq(calls, LAMBDA call : call.batch = b))

\* C10: clearCompleted issues exactly one delete call for each item that is
\* completed at the moment of invocation and none for the others; the ids
\* of a batch do not change afterwards.
C10_ClearIssuesOnePerCompleted ==
  [][/\ clearCount' = clearCount + 1
        => /\ \A t \in Range(todosFromServer) :
                Cardinality({i \in 1..Len(deleteCalls') :
                               /\ deleteCalls'[i].batch = clearCount'
                               /\ deleteCalls'[i].id = t.id})
                  = IF t.completed THEN 1 ELSE 0
           /\ Range(BatchIds(deleteCalls', clearCount'))
                \subseteq IdSet(todosFromServer)
     /\ \A b \in 1..clearCount :
          BatchIds(deleteCalls', b) = BatchIds(deleteCalls, b)]_vars

\* a batch of two delete calls was issued, one of them has settled and a
\* todo was added afterwards
C10_Witness ==
  /\ clearCount = 1
  /\ Len(BatchIds(deleteCalls, 1)) = 2
  /\ \E i \in 1..Len(deleteCalls) : deleteCalls[i].state = "ok"
  /\ \E t \in Range(todosFromServer) : ~t.completed

\* todos without the item of the given id, the others in the same order
\* (todos itself when no item has that id)
Without(todos, id) ==
  IF \E k \in 1..Len(todos) : todos[k].id = id
    THEN LET k == CHOOSE k \in 1..Len(todos) : todos[k].id = id
         IN SubSeq(todos, 1, k - 1) \o SubSeq(todos, k + 1, Len(todos))
    ELSE todos

\* the ids of batch b whose delete failed and that no other delete call
\* removed, in the order of the batch (the order of todos at invocation)
Survivors(calls, b) ==
  Ids(SelectSeq(calls, LAMBDA call :
        /\ call.batch = b
        /\ call.state = "failed"
        /\ ~\E j \in 1..Len(calls) :
              calls[j].id = call.id /\ calls[j].state = "ok"))

\* C11: each success of a clearCompleted batch removes exactly its own item
\* at the step where it settles, each failure leaves its item, and once all
\* calls have settled todos holds the items that were not deleted
\* successfully, in their original order, whatever the settlement order.
C11_BatchAnyOrder ==
  [][/\ \A i \in 1..Len(deleteCalls) :
          deleteCalls[i].batch > 0
          => /\ DeleteSettles(i, "ok")
                => todosFromServer' = Without(todosFromServer, deleteCalls[i].id)
             /\ DeleteSettles(i, "failed")
                => todosFromServer' = todosFromServer
     /\ \A b \in 1..clearCount' :
          (\A i \in 1..Len(deleteCalls') :
             deleteCalls'[i].batch = b => deleteCalls'[i].state # "pending")
          => SelectSeq(Ids(todosFromServer'),
                       LAMBDA id : id \in Range(BatchIds(deleteCalls', b)))
               = Survivors(deleteCalls', b)]_vars

\* a batch of two has settled, the second call first: one success, one
\* failure, and the failed item is the one left
C11_Witness ==
  /\ Len(deleteCalls) = 2
  /\ deleteCalls[1].batch = 1 /\ deleteCalls[1].state = "failed"
  /\ deleteCalls[2].batch = 1 /\ deleteCalls[2].state = "ok"
  /\ deleteCalls[1].id \in IdSet(todosFromServer)
  /\ deleteCalls[2].id \notin IdSet(todosFromServer)

----------------------------------------------------------------------------
(* The promises handed back to the callers *)

\* The promise a then/catch/finally chain settles to, given the outcome of
\* the call it is built on: then fulfils it, catch rethrows
\* (throw new Error(error)), finally passes the outcome through; a rejected
\* validation is Promise.reject('Title is empty')
ChainResult(outcome) ==
  CASE outcome = "ok" -> "fulfilled"
    [] outcome = "failed" -> "rejected"
    [] outcome = "rejected" -> "rejected"
    [] OTHER -> "pending"

\* The promise of Promise.all over the chains of batch b: rejected as soon
\* as one chain is rejected, fulfilled when all are fulfilled
PromiseAll(calls, b) ==
  LET chains == {i \in 1..Len(calls) : calls[i].batch = b} IN
    IF \E i \in chains : ChainResult(calls[i].state) = "rejected"
      THEN "rejected"
      ELSE IF \A i \in chains : ChainResult(calls[i].state) = "fulfilled"
             THEN "fulfilled"
             ELSE "pending"

\* C12: errors are never re-raised to the caller: the promises that add and
\* delete return and the batch promise of clearCompleted settle without a
\* rejection even when the network call fails.
C12_NoRejectionToCaller ==
  /\ \A i \in 1..Len(addCalls) :
       addCalls[i].state = "failed" => ChainResult(addCalls[i].state) # "rejected"
  /\ \A i \in 1..Len(deleteCalls) :
       deleteCalls[i].state = "failed"
       => /\ ChainResult(deleteCalls[i].state) # "rejected"
          /\ deleteCalls[i].batch > 0
             => PromiseAll(deleteCalls, deleteCalls[i].batch) # "rejected"

----------------------------------------------------------------------------
(* Notification *)

\* C13: the timer of an earlier error does not hide or clear the
\* notification of a later error: when the timer that fires is not the one
\* started by the latest error (timers fire in the order they were started,
\* all with the same delay), the notification is left as it is.
C13_OwnTimerOnly ==
  [][(timers' = timers - 1 /\ timers > 1)
     => /\ isNotificationHidden' = isNotificationHidden
        /\ errorMessage' = errorMessage]_vars

----------------------------------------------------------------------------
(* Derived views *)

\* the filter predicate of each Filter value
Shown(filterBy, todo) ==
  CASE filterBy = "active" -> ~todo.completed
    [] filterBy = "completed" -> todo.completed
    [] filterBy = "all" -> TRUE

\* v lists exactly the items of todos that the predicate of filterBy keeps,
\* in the order of todos
IsFilterOf(v, todos, filterBy) ==
  LET kept == {i \in 1..Len(todos) : Shown(filterBy, todos[i])} IN
    /\ Len(v) = Cardinality(kept)
    /\ \A i \in kept : v[Cardinality({j \in kept : j <= i})] = todos[i]

\* C14: visibleTodos is the filter predicate applied to the current todos,
\* in the order of todos; items whose ids are in deletingIds are not hidden.
C14_VisibleTodosIsFilter ==
  /\ IsFilterOf(visibleTodos, todosFromServer, filter)
  /\ \A i \in 1..Len(todosFromServer) :
       (todosFromServer[i].id \in DeletingIdSet
          /\ Shown(filter, todosFromServer[i]))
       => todosFromServer[i] \in Range(visibleTodos)

\* the Active filter hides a completed item and shows an active one that is
\* being deleted
C14_Witness ==
  /\ filter = "active"
  /\ \E t \in Range(todosFromServer) : t.completed
  /\ \E t \in Range(visibleTodos) : t.id \in DeletingIdSet
  /\ Len(visibleTodos) < Len(todosFromServer)

\* C15: allCompleted is true if and only if todos is empty or every item is
\* completed, i.e. if and only if the number of non-completed items is 0.
C15_AllCompleted ==
  /\ allTodosCompleted
       <=> (todosFromServer = <<>>
              \/ \A i \in 1..Len(todosFromServer) : todosFromServer[i].completed)
  /\ allTodosCompleted
       <=> Cardinality({i \in 1..Len(todosFromServer) :
                          ~todosFromServer[i].completed}) = 0
  /\ activeTodosCount
       = Cardinality({i \in 1..Len(todosFromServer) :
                        ~todosFromServer[i].completed})

\* a list of completed items only: allCompleted holds with todos not empty
C15_Witness ==
  /\ Len(todosFromServer) = 2
  /\ \A i \in 1..Len(todosFromServer) : todosFromServer[i].completed
  /\ allTodosCompleted

\* C16: todos contains no item with id 0: the placeholder never enters
\* todos, neither while its create request is in flight nor afterwards.
C16_NoPlaceholderInTodos ==
  /\ 0 \notin IdSet(todosFromServer)
  /\ tempTodo # NoTodo => tempTodo[1] \notin Range(todosFromServer)
  /\ \A i \in 1..Len(addCalls) :
       addCalls[i].state = "ok" => addCalls[i].result[1].id # 0

\* one create has succeeded and its todo is listed while the placeholder of
\* a second create is showing
C16_Witness ==
  /\ tempTodo # NoTodo
  /\ tempTodo[1].id = 0
  /\ \E i \in 1..Len(addCalls) :
       /\ addCalls[i].state = "ok"
       /\ addCalls[i].result[1] \in Range(todosFromServer)

----------------------------------------------------------------------------
(* Initial load *)

C18_CreatedTodoStays ==
  [][\A i \in 1..Len(addCalls) :
       (/\ addCalls[i].state = "ok"
        /\ addCalls[i].result[1] \in Range(todosFromServer)
        /\ ~\E j \in 1..Len(deleteCalls) :
              /\ DeleteSettles(j, "ok")
              /\ deleteCalls[j].id = addCalls[i].result[1].id)
       => addCalls[i].result[1] \in Range(todosFromServer')]_vars

----------------------------------------------------------------------------
(* Settling *)

\* Every issued network call eventually settles, with either outcome
SettleCreate == \E i \in 1..Len(addCalls) : handleAddTodoThen(i) \/ handleAddTodoCatch(i)

SettleDelete ==
  \E i \in 1..Len(deleteCalls) :
    \/ handleDeleteTodoThen(i)
    \/ handleDeleteTodoCatch(i)
    \/ handleClearCompletedTodosThen(i)
    \/ handleClearCompletedTodosCatch(i)

SettleList == getTodosCatch \/ \E todos \in ListResponses : getTodosThen(todos)

\* The steps of Next with the filter left on All: the filter only narrows
\* the rows that offer handleDeleteTodo, so every behaviour of tempTodo and
\* deletingTodoIds under Next is one under FairNext
FairNext ==
  \/ SettleList
  \/ \E title \in Titles : handleAddTodo(title)
  \/ SettleCreate
  \/ \E todoId \in 1..(NumServerTodos + MaxAddCalls) : handleDeleteTodo(todoId)
  \/ handleClearCompletedTodos
  \/ SettleDelete
  \/ timerFires
  \/ onClose

FairSpec ==
  /\ Init
  /\ [][FairNext]_vars
  /\ WF_vars(SettleCreate)
  /\ WF_vars(SettleDelete)
  /\ WF_vars(SettleList)

\* C19: when every issued network call eventually settles and no further
\* intents arrive, the system reaches and stays in a state where
\* pendingCreate and deletingIds are both empty.
C19_EventuallyQuiet ==
  <>[](tempTodo = NoTodo /\ deletingTodoIds = <<>>)

\* every call has settled, with a failed create and a failed delete among
\* them, and nothing is pending on screen
C19_Witness ==
  /\ Pending(addCalls) = {}
  /\ Pending(deleteCalls) = {}
  /\ \E i \in 1..Len(addCalls) : addCalls[i].state = "failed"
  /\ \E i \in 1..Len(addCalls) : addCalls[i].state = "ok"
  /\ \E i \in 1..Len(deleteCalls) : deleteCalls[i].state = "failed"
  /\ tempTodo = NoTodo
  /\ deletingTodoIds = <<>>

\* C20: whenever the notification is visible, errorMessage is not empty.
C20_VisibleHasMessage ==
  ~isNotificationHidden => errorMessage # ""

====
